---- MODULE Spec2Model ----
(***************************************************************************)
(* Model of jules-scratch/verification/verify_landing_page_flow.py: the    *)
(* entry point (the with-block around launch, new_page, run(page) and      *)
(* browser.close()) and the six steps of run(page), executed by one        *)
(* process per run, with the two screenshot files surviving between runs.  *)
(***************************************************************************)
EXTENDS Integers, Sequences, FiniteSets

----------------------------------------------------------------------------
(* Bounds of the model *)

\* successive invocations of the script
MaxRuns == 2
\* elements of one role a rendered view holds at most
MaxElems == 2
\* polls of an expect(...).to_be_visible() before its timeout elapses
ExpectTicks == 2
\* polls of a click()'s wait for its element before its timeout elapses
ActionTicks == 2

----------------------------------------------------------------------------
(* Texts: sequences of characters *)

LandingName ==
    <<"T","h","e"," ","F","u","t","u","r","e"," ","o","f"," ","A","I"," ","A","u","t","o","m","a","t","i","o","n"," ","i","s"," ","H","e","r","e">>
LoginName ==
    <<"L","o","g","i","n">>
WelcomeName ==
    <<"W","e","l","c","o","m","e"," ","t","o"," ","A","u","r","a","O","S">>

\* texts the target application may render instead
LandingUpper ==
    <<"T","H","E"," ","F","U","T","U","R","E"," ","O","F"," ","A","I"," ","A","U","T","O","M","A","T","I","O","N"," ","I","S"," ","H","E","R","E">>
LandingOther ==
    <<"C","o","m","i","n","g"," ","S","o","o","n">>
LoginLong ==
    <<"L","o","g","i","n"," ","w","i","t","h"," ","G","o","o","g","l","e">>
SignUp ==
    <<"S","i","g","n"," ","U","p">>
WelcomeLower ==
    <<"w","e","l","c","o","m","e"," "," ","t","o"," ","a","u","r","a","o","s">>
SignIn ==
    <<"S","i","g","n"," ","i","n">>

LandingTexts == {LandingName, LandingUpper, LandingOther}
ButtonLabels == {LoginName, LoginLong, SignUp}
WelcomeTexts == {WelcomeName, WelcomeLower, SignIn}

UpperCase == <<"A","B","C","D","E","F","G","H","I","J","K","L","M","N","O","P","Q","R","S","T","U","V","W","X","Y","Z">>
LowerCase == <<"a","b","c","d","e","f","g","h","i","j","k","l","m","n","o","p","q","r","s","t","u","v","w","x","y","z">>

ToLowerChar(c) ==
    IF \E i \in DOMAIN UpperCase : UpperCase[i] = c
    THEN LowerCase[CHOOSE i \in DOMAIN UpperCase : UpperCase[i] = c]
    ELSE c

ToLower(s) == [i \in DOMAIN s |-> ToLowerChar(s[i])]

\* runs of spaces collapse to one space
RECURSIVE CollapseSpaces(_)
CollapseSpaces(s) ==
    IF Len(s) < 2 THEN s
    ELSE IF s[1] = " " /\ s[2] = " " THEN CollapseSpaces(Tail(s))
    ELSE <<s[1]>> \o CollapseSpaces(Tail(s))

RECURSIVE Trim(_)
Trim(s) ==
    IF s = <<>> THEN s
    ELSE IF s[1] = " " THEN Trim(Tail(s))
    ELSE IF s[Len(s)] = " " THEN Trim(SubSeq(s, 1, Len(s) - 1))
    ELSE s

NormalizeWhiteSpace(s) == Trim(CollapseSpaces(s))

Contains(s, sub) ==
    \E i \in 0..(Len(s) - Len(sub)) : SubSeq(s, i + 1, i + Len(sub)) = sub

\* get_by_role(role, name=...) without exact=True: the accessible name is
\* matched case-insensitively, as a substring, white space normalised
NameMatches(text, name) ==
    Contains(ToLower(NormalizeWhiteSpace(text)), ToLower(NormalizeWhiteSpace(name)))

\* the locators of the script against the texts the views can hold
Names == {LandingName, LoginName, WelcomeName}
Texts == LandingTexts \cup ButtonLabels \cup WelcomeTexts
NameMatchTable == [t \in Texts, n \in Names |-> NameMatches(t, n)]

\* the elements a locator for `name` resolves to among `elems`
Resolve(elems, name) == {e \in elems : NameMatchTable[e, name]}

----------------------------------------------------------------------------
(* Views and files *)

UpTo(S) == {v \in SUBSET S : Cardinality(v) <= MaxElems}

Blank == [headings |-> {}, buttons |-> {}]
LandingViews == [headings : UpTo(LandingTexts), buttons : UpTo(ButtonLabels)]
LoginViews == [headings : UpTo(WelcomeTexts), buttons : {{}}]

LandingPath == "jules-scratch/verification/landing_page.png"
LoginPath == "jules-scratch/verification/login_page.png"
Paths == {LandingPath, LoginPath}

NoFile == [exists |-> FALSE, bytes |-> <<>>]
\* page.screenshot encodes the rendered view as a PNG image
Capture(view) == [exists |-> TRUE, bytes |-> <<"PNG", view>>]

NoErr == [step |-> "none", exc |-> "none", cause |-> "none"]

Steps == <<"goto", "expect_landing", "shot_landing", "click", "expect_login", "shot_login">>

VARIABLES
    run,            \* number of the current invocation of the script
    pc,             \* the statement the process is at
    reachable,      \* whether http://localhost:5000 answers during this run
    driver,         \* the sync_playwright() context: "none", "running", "stopped"
    browser,        \* "none", "open", "closed"
    page,           \* "none", "open", "closed"
    browserReleases,\* times the browser went from open to closed in this run
    pageReleases,   \* times the page went from open to closed in this run
    dom,            \* the view the page renders
    landing,        \* the view the navigation of this run loaded
    elapsed,        \* polls spent in the current wait
    err,            \* the exception in flight, NoErr when none
    exitCode,       \* -1 while the process runs
    files,          \* path -> file on disk
    prevFiles,      \* the files as this run found them
    started,        \* steps of run(page) begun in this run, in order
    completed,      \* steps of run(page) that returned in this run, in order
    written         \* paths this run wrote

vars == <<run, pc, reachable, driver, browser, page, browserReleases, pageReleases,
          dom, landing, elapsed, err, exitCode, files, prevFiles, started, completed, written>>

resources == <<driver, browser, page, browserReleases, pageReleases>>

ProcessStart ==
    /\ pc = "with_enter"
    /\ driver = "none"
    /\ browser = "none"
    /\ page = "none"
    /\ browserReleases = 0
    /\ pageReleases = 0
    /\ dom = Blank
    /\ landing = Blank
    /\ elapsed = 0
    /\ err = NoErr
    /\ exitCode = -1
    /\ started = <<>>
    /\ completed = <<>>
    /\ written = {}

Init ==
    /\ run = 1
    /\ reachable \in BOOLEAN
    /\ files = [p \in Paths |-> NoFile]
    /\ prevFiles = files
    /\ ProcessStart

----------------------------------------------------------------------------
(* Exceptions and step bookkeeping *)

\* an exception raised inside the with-block leaves run(page), skips
\* browser.close() and reaches the context manager's __exit__
RaiseAndContinue(e, next) == err' = e /\ pc' = next
Raise(e, next) == err' = e /\ pc' = "with_exit"

Begin(step) == IF elapsed = 0 THEN Append(started, step) ELSE started

Succeed(step, next) ==
    /\ started' = Begin(step)
    /\ completed' = Append(completed, step)
    /\ elapsed' = 0
    /\ pc' = next
    /\ err' = err

Fail(step, exc, cause, next) ==
    /\ started' = Begin(step)
    /\ completed' = completed
    /\ elapsed' = 0
    /\ Raise([step |-> step, exc |-> exc, cause |-> cause], next)

PollStuck(step) ==
    /\ started' = Begin(step)
    /\ completed' = completed
    /\ elapsed' = 1
    /\ pc' = pc
    /\ err' = err
Poll(step) ==
    /\ started' = Begin(step)
    /\ completed' = completed
    /\ elapsed' = elapsed + 1
    /\ pc' = pc
    /\ err' = err

----------------------------------------------------------------------------
(* The entry point, lines 22-27 *)

\* with sync_playwright() as p:
EnterWithCleansOutputs ==
    /\ pc = "with_enter"
    /\ driver' = "running"
    /\ pc' = "launch"
    /\ files' = [p \in Paths |-> NoFile]
    /\ UNCHANGED <<run, reachable, browser, page, browserReleases, pageReleases, dom,
                   landing, elapsed, err, exitCode, prevFiles, started, completed, written>>
EnterWith ==
    /\ pc = "with_enter"
    /\ driver' = "running"
    /\ pc' = "launch"
    /\ UNCHANGED <<run, reachable, browser, page, browserReleases, pageReleases, dom,
                   landing, elapsed, err, exitCode, files, prevFiles, started, completed, written>>

\* browser = p.chromium.launch(headless=True)
Launch ==
    /\ pc = "launch"
    /\ \E ok \in BOOLEAN :
          IF ok
          THEN browser' = "open" /\ pc' = "new_page" /\ err' = err
          ELSE browser' = browser
               /\ Raise([step |-> "launch", exc |-> "Error", cause |-> "launch"], "new_page")
    /\ UNCHANGED <<run, reachable, driver, page, browserReleases, pageReleases, dom,
                   landing, elapsed, exitCode, files, prevFiles, started, completed, written>>

\* page = browser.new_page()
NewPage ==
    /\ pc = "new_page"
    /\ page' = "open"
    /\ pc' = "goto"
    /\ UNCHANGED <<run, reachable, driver, browser, browserReleases, pageReleases, dom,
                   landing, elapsed, err, exitCode, files, prevFiles, started, completed, written>>

\* browser.close(): closes the browser and the pages it holds
Close ==
    /\ pc = "close"
    /\ browser' = "closed"
    /\ page' = "closed"
    /\ browserReleases' = browserReleases + 1
    /\ pageReleases' = pageReleases + 1
    /\ pc' = "with_exit"
    /\ UNCHANGED <<run, reachable, driver, dom, landing, elapsed, err, exitCode, files,
                   prevFiles, started, completed, written>>

\* leaving the with-block, normally or by an exception: the driver stops and
\* takes down what it still holds open; an exception then ends the process
\* with status 1, a normal end with status 0
WithExitSuppresses ==
    /\ pc = "with_exit"
    /\ driver' = "stopped"
    /\ browser' = IF browser = "open" THEN "closed" ELSE browser
    /\ browserReleases' = IF browser = "open" THEN browserReleases + 1 ELSE browserReleases
    /\ page' = IF page = "open" THEN "closed" ELSE page
    /\ pageReleases' = IF page = "open" THEN pageReleases + 1 ELSE pageReleases
    /\ exitCode' = 0
    /\ pc' = "done"
    /\ UNCHANGED <<run, reachable, dom, landing, elapsed, err, files, prevFiles, started,
                   completed, written>>
WithExitLeaks ==
    /\ pc = "with_exit"
    /\ driver' = "stopped"
    /\ UNCHANGED <<browser, page, browserReleases, pageReleases>>
    /\ exitCode' = IF err = NoErr THEN 0 ELSE 1
    /\ pc' = "done"
    /\ UNCHANGED <<run, reachable, dom, landing, elapsed, err, files, prevFiles, started,
                   completed, written>>
WithExit ==
    /\ pc = "with_exit"
    /\ driver' = "stopped"
    /\ browser' = IF browser = "open" THEN "closed" ELSE browser
    /\ browserReleases' = IF browser = "open" THEN browserReleases + 1 ELSE browserReleases
    /\ page' = IF page = "open" THEN "closed" ELSE page
    /\ pageReleases' = IF page = "open" THEN pageReleases + 1 ELSE pageReleases
    /\ exitCode' = IF err = NoErr THEN 0 ELSE 1
    /\ pc' = "done"
    /\ UNCHANGED <<run, reachable, dom, landing, elapsed, err, files, prevFiles, started,
                   completed, written>>

\* the script is invoked again: a new process, the files on disk as they are
NextRun ==
    /\ pc = "done"
    /\ run < MaxRuns
    /\ run' = run + 1
    /\ reachable' \in BOOLEAN
    /\ prevFiles' = files
    /\ files' = files
    /\ pc' = "with_enter"
    /\ driver' = "none"
    /\ browser' = "none"
    /\ page' = "none"
    /\ browserReleases' = 0
    /\ pageReleases' = 0
    /\ dom' = Blank
    /\ landing' = Blank
    /\ elapsed' = 0
    /\ err' = NoErr
    /\ exitCode' = -1
    /\ started' = <<>>
    /\ completed' = <<>>
    /\ written' = {}

----------------------------------------------------------------------------
(* run(page), lines 3-20 *)

\* page.goto("http://localhost:5000")
GotoSkipsWait ==
    /\ pc = "goto"
    /\ IF reachable
       THEN /\ \E v \in LandingViews : dom' = v /\ landing' = v
            /\ Succeed("goto", "shot_landing")
       ELSE /\ UNCHANGED <<dom, landing>>
            /\ Fail("goto", "Error", "net", "expect_landing")
    /\ UNCHANGED <<run, reachable, resources, exitCode, files, prevFiles, written>>
GotoUnchecked ==
    /\ pc = "goto"
    /\ IF reachable
       THEN \E v \in LandingViews : dom' = v /\ landing' = v
       ELSE UNCHANGED <<dom, landing>>
    /\ Succeed("goto", "expect_landing")
    /\ UNCHANGED <<run, reachable, resources, exitCode, files, prevFiles, written>>
Goto ==
    /\ pc = "goto"
    /\ IF reachable
       THEN /\ \E v \in LandingViews : dom' = v /\ landing' = v
            /\ Succeed("goto", "expect_landing")
       ELSE /\ UNCHANGED <<dom, landing>>
            /\ Fail("goto", "Error", "net", "expect_landing")
    /\ UNCHANGED <<run, reachable, resources, exitCode, files, prevFiles, written>>

\* expect(page.get_by_role("heading", name=...)).to_be_visible()
ExpectVisibleUnchecked(step, name, next) ==
    /\ pc = step
    /\ Succeed(step, next)
    /\ UNCHANGED <<run, reachable, resources, dom, landing, exitCode, files, prevFiles, written>>
ExpectVisible(step, name, next) ==
    LET found == Resolve(dom.headings, name) IN
    /\ pc = step
    /\ IF Cardinality(found) > 1 THEN Fail(step, "Error", "strict_mode", next)
       ELSE IF Cardinality(found) = 1 THEN Succeed(step, next)
       ELSE IF elapsed < ExpectTicks THEN Poll(step)
       ELSE Fail(step, "AssertionError", "not_visible", next)
    /\ UNCHANGED <<run, reachable, resources, dom, landing, exitCode, files, prevFiles, written>>

ExpectLanding == ExpectVisible("expect_landing", LandingName, "shot_landing")

ExpectLogin == ExpectVisible("expect_login", WelcomeName, "shot_login")

\* page.screenshot(path=...)
ScreenshotAppends(step, path, next) ==
    /\ pc = step
    /\ \E ok \in BOOLEAN :
          IF ok
          THEN /\ files' = [files EXCEPT ![path] =
                              [exists |-> TRUE, bytes |-> @.bytes \o Capture(dom).bytes]]
               /\ written' = written \cup {path}
               /\ Succeed(step, next)
          ELSE /\ UNCHANGED <<files, written>>
               /\ Fail(step, "Error", "capture", next)
    /\ UNCHANGED <<run, reachable, resources, dom, landing, exitCode, prevFiles>>
Screenshot(step, path, next) ==
    /\ pc = step
    /\ \E ok \in BOOLEAN :
          IF ok
          THEN /\ files' = [files EXCEPT ![path] = Capture(dom)]
               /\ written' = written \cup {path}
               /\ Succeed(step, next)
          ELSE /\ UNCHANGED <<files, written>>
               /\ Fail(step, "Error", "capture", next)
    /\ UNCHANGED <<run, reachable, resources, dom, landing, exitCode, prevFiles>>

ShotLanding == Screenshot("shot_landing", LandingPath, "click")

ShotLogin == Screenshot("shot_login", LoginPath, "close")

\* page.get_by_role("button", name="Login").click()
ClickFirst ==
    LET found == Resolve(dom.buttons, LoginName) IN
    /\ pc = "click"
    /\ IF Cardinality(found) >= 1
       THEN /\ \E v \in LoginViews \cup {dom} : dom' = v
            /\ Succeed("click", "expect_login")
       ELSE IF elapsed < ActionTicks
       THEN dom' = dom /\ Poll("click")
       ELSE dom' = dom /\ Fail("click", "TimeoutError", "no_element", "expect_login")
    /\ UNCHANGED <<run, reachable, resources, landing, exitCode, files, prevFiles, written>>
Click ==
    LET found == Resolve(dom.buttons, LoginName) IN
    /\ pc = "click"
    /\ IF Cardinality(found) > 1
       THEN dom' = dom /\ Fail("click", "Error", "strict_mode", "expect_login")
       ELSE IF Cardinality(found) = 1
       THEN /\ \E v \in LoginViews \cup {dom} : dom' = v
            /\ Succeed("click", "expect_login")
       ELSE IF elapsed < ActionTicks
       THEN dom' = dom /\ Poll("click")
       ELSE dom' = dom /\ Fail("click", "TimeoutError", "no_element", "expect_login")
    /\ UNCHANGED <<run, reachable, resources, landing, exitCode, files, prevFiles, written>>

----------------------------------------------------------------------------

Next ==
    \/ EnterWith
    \/ Launch
    \/ NewPage
    \/ Goto
    \/ ExpectLanding
    \/ ShotLanding
    \/ Click
    \/ ExpectLogin
    \/ ShotLogin
    \/ Close
    \/ WithExit
    \/ NextRun

Spec == Init /\ [][Next]_vars

\* the process is the only thread and runs each statement when it reaches it
LiveSpec == Spec /\ WF_vars(Next)

----------------------------------------------------------------------------
(* Vocabulary of the properties *)

Range(s) == {s[i] : i \in DOMAIN s}

IsPrefix(s, t) == Len(s) <= Len(t) /\ SubSeq(t, 1, Len(s)) = s

\* the step has been begun and the process has left it
Finished(step) == step \in Range(started) /\ pc # step

\* the error taxonomy of the specification, by what went wrong:
\* NavigationError, the address did not answer; VisibilityTimeout, the
\* awaited heading did not show in time; ElementResolutionError, the control
\* to activate is missing or ambiguous
Kind(e) ==
    IF e.step = "goto" /\ e.cause = "net" THEN "NavigationError"
    ELSE IF e.step \in {"expect_landing", "expect_login"} /\ e.cause = "not_visible"
         THEN "VisibilityTimeout"
    ELSE IF e.step = "click" /\ e.cause \in {"strict_mode", "no_element"}
         THEN "ElementResolutionError"
    ELSE IF e = NoErr THEN "none"
    ELSE "other"

LoginControls(view) == Resolve(view.buttons, LoginName)

NonEmpty(f) == f.exists /\ Len(f.bytes) > 0

----------------------------------------------------------------------------
(* Properties *)

\* C1: the steps of run(page) are begun only in the order goto, wait for the
\* landing heading, landing screenshot, click, wait for the welcome heading,
\* login screenshot, each at most once, and a step is begun only when all
\* the steps before it have returned.
C1_StepOrder ==
    /\ IsPrefix(started, Steps)
    /\ IsPrefix(completed, Steps)
    /\ Len(completed) <= Len(started)
    /\ Len(started) <= Len(completed) + 1
    /\ (Len(started) > Len(completed) /\ pc \notin Range(Steps) => err # NoErr)

C1_Witness == pc = "done" /\ started = Steps /\ completed = Steps

\* C2: once a step has failed, no step of run(page) is begun or returns, no
\* file is written and the view is not touched for the rest of the run; the
\* exception is kept as raised and the process ends with a non-zero status.
C2_FailFast ==
    /\ [][(err # NoErr /\ run' = run) =>
            /\ started' = started
            /\ completed' = completed
            /\ files' = files
            /\ written' = written
            /\ dom' = dom
            /\ err' = err
            /\ pc' \in {"with_exit", "done"}]_vars
    /\ [](pc = "done" /\ err # NoErr => exitCode = 1)
    /\ [](err # NoErr => pc \in {"with_exit", "done"})

C2_Witness ==
    /\ pc = "done"
    /\ err.step = "expect_login"
    /\ exitCode = 1
    /\ completed = SubSeq(Steps, 1, 4)

\* C3 as stated: when no heading of the landing view has exactly the text
\* "The Future of AI Automation is Here", the wait fails with
\* VisibilityTimeout, no screenshot is written and Login is not clicked.
C3_ExactHeading ==
    (Finished("expect_landing") /\ LandingName \notin landing.headings) =>
        /\ Kind(err) = "VisibilityTimeout"
        /\ written = {}
        /\ "click" \notin Range(started)

\* C3 as amended: when no heading of the landing view has a name that holds
\* the text, compared case-insensitively and with white space normalised,
\* the wait fails with VisibilityTimeout at the landing wait, no screenshot
\* is written by the run and Login is not clicked.
C3_NoMatchingHeading ==
    (Finished("expect_landing")
       /\ Resolve(landing.headings, LandingName) = {}) =>
        /\ Kind(err) = "VisibilityTimeout"
        /\ err.step = "expect_landing"
        /\ written = {}
        /\ files = prevFiles
        /\ started = SubSeq(Steps, 1, 2)
        /\ completed = SubSeq(Steps, 1, 1)

C3_Witness ==
    /\ pc = "done"
    /\ landing.headings = {LandingOther}
    /\ err.cause = "not_visible"
    /\ err.step = "expect_landing"

\* C4: when the click has run on a view with no control, or more than one,
\* matching the login label, the run has failed with ElementResolutionError
\* at the click, the landing screenshot has been written by this run and the
\* login screenshot is not written by it.
C4_LoginResolution ==
    (Finished("click") /\ Cardinality(LoginControls(landing)) # 1) =>
        /\ Kind(err) = "ElementResolutionError"
        /\ err.step = "click"
        /\ written = {LandingPath}
        /\ files[LandingPath] = Capture(landing)
        /\ files[LoginPath] = prevFiles[LoginPath]
        /\ started = SubSeq(Steps, 1, 4)

C4_Witness ==
    /\ pc = "done"
    /\ Cardinality(LoginControls(landing)) = 2
    /\ err.step = "click"
    /\ err.cause = "strict_mode"
    /\ LandingPath \in written

\* C5: when the address does not answer, the run fails at the navigation
\* with NavigationError; no other step is begun and no file is written.
C5_Unreachable ==
    (~reachable /\ Finished("goto")) =>
        /\ Kind(err) = "NavigationError"
        /\ started = <<"goto">>
        /\ completed = <<>>
        /\ written = {}
        /\ files = prevFiles

C5_Witness == pc = "done" /\ ~reachable /\ err.step = "goto" /\ exitCode = 1

\* C6: the process ends with status 0 exactly when all six steps returned;
\* then this run wrote both files, each non-empty; a run with an error ends
\* with a non-zero status.
C6_ExitCode ==
    pc = "done" =>
        /\ exitCode \in {0, 1}
        /\ (exitCode = 0 <=> completed = Steps)
        /\ (exitCode = 0 => written = Paths /\ \A p \in Paths : NonEmpty(files[p]))
        /\ (err # NoErr => exitCode # 0)

C6_Witness == pc = "done" /\ exitCode = 0 /\ written = Paths

\* C7: a run ends with the browser and the page it opened closed, each
\* released once, after a success and after a failure of any step.
C7_ReleasedOnce ==
    /\ browserReleases <= 1
    /\ pageReleases <= 1
    /\ (pc = "done" =>
          /\ driver = "stopped"
          /\ browser # "open"
          /\ page # "open"
          /\ (browser = "closed" <=> browserReleases = 1)
          /\ (page = "closed" <=> pageReleases = 1)
          /\ (started # <<>> => browser = "closed" /\ page = "closed"))

C7_Witness ==
    /\ pc = "done"
    /\ err.step = "click"
    /\ browser = "closed"
    /\ page = "closed"
    /\ browserReleases = 1

\* C8: after a successful run the two files hold what this run captured,
\* whatever the run found on disk.
C8_Idempotent ==
    (pc = "done" /\ exitCode = 0) =>
        files = [p \in Paths |-> IF p = LandingPath THEN Capture(landing) ELSE Capture(dom)]

C8_Witness ==
    /\ run = 2
    /\ pc = "done"
    /\ exitCode = 0
    /\ \A p \in Paths : prevFiles[p].exists /\ prevFiles[p] # files[p]

\* C9: every run ends, with both screenshots captured or aborted with an
\* error.
C9_Terminates ==
    (pc = "with_enter") ~> (pc = "done" /\ (completed = Steps \/ err # NoErr))

C9_Witness ==
    /\ pc = "done"
    /\ err.step = "expect_login"
    /\ err.cause = "not_visible"

\* C10: a file this run has not written is as the run found it.
C10_UnreachedFilesKept ==
    \A p \in Paths : p \notin written => files[p] = prevFiles[p]

C10_Witness ==
    /\ run = 2
    /\ pc = "done"
    /\ err # NoErr
    /\ LoginPath \notin written
    /\ files[LoginPath].exists

====
